---- MODULE Spec2Model ----
(***************************************************************************)
(* The tic-tac-toe game engine of apps/game: the Game row and the Move     *)
(* table of the durable store, the rule functions of GameService and Game, *)
(* and the requests (WebSocket handle_move, REST move and join) that read  *)
(* the Game row, work on their in-memory copy and write it back.           *)
(*                                                                         *)
(* The store runs in autocommit mode: every ORM call (get, create, save)   *)
(* is one database statement of its own, and the code opens no             *)
(* transaction and takes no lock.  A request is therefore a process whose  *)
(* steps are its database statements.                                      *)
(***************************************************************************)
EXTENDS Integers, Sequences, FiniteSets, TLC

----------------------------------------------------------------------------
(* Bounds of the model *)

\* Requests that may be between their first read and their response at once.
MaxInFlight == 2

\* Move records after which no further request is started.
MaxMoves == 5

\* Times a request may start while another one is in flight.
MaxOverlaps == 1

\* Move records after which no further request of SpecEnd is started.
MaxLog == 10

\* PUT and PATCH requests after which no further one is made.
MaxUpdates == 1

----------------------------------------------------------------------------
(* Values *)

None == "none"

Users == {"u1", "u2", "u3"}

\* Game.Status
WAITING == "waiting"
IN_PROGRESS == "in_progress"
FINISHED == "finished"
DRAW == "draw"

\* The board is a list of 9 cells, indexed 0..8.
LastCell == 8

Cells == 0..LastCell

EmptyBoard == [i \in Cells |-> None]

\* The row of a game that is not in the store.
NoGame == [exists |-> FALSE]

\* The messages of the errors the handlers raise.
ErrNotInProgress == "Game is not in progress."
ErrNotPlayer == "You are not a player in this game."
ErrNotYourTurn == "It is not your turn."
ErrNotAvailable(position) ==
    "Position " \o ToString(position) \o " is not available."
\* The messages of the min_value and max_value validators of the field.
ErrFieldRange(position) ==
    IF position < 0 THEN "Ensure this value is greater than or equal to 0."
    ELSE "Ensure this value is less than or equal to 8."
ErrNotJoinable == "This game is not available to join."
ErrSelfPlay == "You cannot play against yourself."
ErrTwoPlayers == "This game already has two players."
ErrNotFound == "Not found."
ErrForeignKey == "FOREIGN KEY constraint failed"
ErrServerError == "Server Error (500)"
ErrNoSuchUser(name) == "User \"" \o name \o "\" does not exist."
Ok == "ok"

----------------------------------------------------------------------------
(* Rule functions *)

\* Mutant: the middle column is missing from the list.
WINNING_COMBINATIONS_NoMiddleColumn ==
    << <<0, 1, 2>>, <<3, 4, 5>>, <<6, 7, 8>>,
       <<0, 3, 6>>, <<2, 5, 8>>,
       <<0, 4, 8>>, <<2, 4, 6>> >>

WINNING_COMBINATIONS ==
    << <<0, 1, 2>>, <<3, 4, 5>>, <<6, 7, 8>>,
       <<0, 3, 6>>, <<1, 4, 7>>, <<2, 5, 8>>,
       <<0, 4, 8>>, <<2, 4, 6>> >>

ComboWins(board, combo) ==
    /\ board[combo[1]] # None
    /\ board[combo[1]] = board[combo[2]]
    /\ board[combo[2]] = board[combo[3]]

RECURSIVE CheckWinnerFrom(_, _)
CheckWinnerFrom(board, i) ==
    IF i > Len(WINNING_COMBINATIONS) THEN None
    ELSE IF ComboWins(board, WINNING_COMBINATIONS[i])
         THEN board[WINNING_COMBINATIONS[i][1]]
         ELSE CheckWinnerFrom(board, i + 1)

\* Mutant: the loop starts at the second combination.
check_winner_SkipsFirst(board) == CheckWinnerFrom(board, 2)

\* GameService._check_winner: the mark of the first complete combination.
check_winner(board) == CheckWinnerFrom(board, 1)

\* Mutant: the board is never found full.
is_board_full_Never(board) == FALSE

\* Mutant: any() in place of all(): one mark makes the board full.
is_board_full_Any(board) == \E i \in Cells : board[i] # None

\* GameService._is_board_full
is_board_full(board) == \A i \in Cells : board[i] # None

\* Game.get_player_symbol
get_player_symbol(g, user) ==
    IF user = g.player1 THEN "X"
    ELSE IF user = g.player2 THEN "O"
    ELSE None

\* Mutant: the turn is never checked.
is_player_turn_Always(g, user) == TRUE

\* Game.is_player_turn
is_player_turn(g, user) == get_player_symbol(g, user) = g.current_turn

\* Mutant: the cell is not looked at, only the range.
is_position_available_RangeOnly(g, position) ==
    /\ 0 <= position
    /\ position <= LastCell

\* Game.is_position_available
is_position_available(g, position) ==
    /\ 0 <= position
    /\ position <= LastCell
    /\ g.board[position] = None

\* Game.get_available_positions
get_available_positions(g) == {i \in Cells : g.board[i] = None}

\* Game.save: a board that is empty (no cells) is initialised, then the whole
\* row is written.
SavedRow(g) ==
    IF DOMAIN g.board = {} THEN [g EXCEPT !.board = EmptyBoard] ELSE g

\* Mutant: a new game waits for a second player even when it has one.
NewGame_AlwaysWaiting(player1, player2) ==
    SavedRow([exists |-> TRUE,
              player1 |-> player1,
              player2 |-> player2,
              status |-> WAITING,
              board |-> EmptyBoard,
              current_turn |-> "X",
              winner |-> None,
              finished_at |-> FALSE])

\* Game.objects.create(...) of both creation paths.
NewGame(player1, player2) ==
    SavedRow([exists |-> TRUE,
              player1 |-> player1,
              player2 |-> player2,
              status |-> IF player2 = None THEN WAITING ELSE IN_PROGRESS,
              board |-> EmptyBoard,
              current_turn |-> "X",
              winner |-> None,
              finished_at |-> FALSE])

\* Mutant: the status of the game is not checked.
MoveError_NoStatusCheck(g, user, position) ==
    IF user \notin {g.player1, g.player2} THEN ErrNotPlayer
    ELSE IF ~ is_player_turn(g, user) THEN ErrNotYourTurn
    ELSE IF ~ is_position_available(g, position) THEN ErrNotAvailable(position)
    ELSE Ok

\* The validations of GameService.make_move, in the order of the code: the
\* message of the first one that fails, or Ok.
MoveError(g, user, position) ==
    IF g.status # IN_PROGRESS THEN ErrNotInProgress
    ELSE IF user \notin {g.player1, g.player2} THEN ErrNotPlayer
    ELSE IF ~ is_player_turn(g, user) THEN ErrNotYourTurn
    ELSE IF ~ is_position_available(g, position) THEN ErrNotAvailable(position)
    ELSE Ok

\* The REST move action: the position field (min_value=0, max_value=8) is
\* validated first, then MakeMoveSerializer.validate makes the checks of
\* make_move on the same object, then make_move makes them again.
RestMoveError(g, user, position) ==
    IF position < 0 \/ position > LastCell THEN ErrFieldRange(position)
    ELSE MoveError(g, user, position)

\* The Move record make_move creates.
NewMove(g, user, position) ==
    [player |-> user, position |-> position,
     symbol |-> get_player_symbol(g, user)]

\* Mutant: the winner is the player of the other mark.
MovedGame_OtherWinner(g, user, position) ==
    LET symbol == get_player_symbol(g, user)
        b == [g.board EXCEPT ![position] = symbol]
        winner == check_winner(b)
    IN  IF winner # None
        THEN [g EXCEPT !.board = b,
                       !.status = FINISHED,
                       !.winner = IF winner = "X" THEN g.player2 ELSE g.player1,
                       !.finished_at = TRUE]
        ELSE IF is_board_full(b)
        THEN [g EXCEPT !.board = b, !.status = DRAW, !.finished_at = TRUE]
        ELSE [g EXCEPT !.board = b,
                       !.current_turn = IF g.current_turn = "X" THEN "O" ELSE "X"]

\* Mutant: a move that completes a combination does not end the game.
MovedGame_PlaysOn(g, user, position) ==
    LET symbol == get_player_symbol(g, user)
        b == [g.board EXCEPT ![position] = symbol]
    IN  IF is_board_full(b)
        THEN [g EXCEPT !.board = b, !.status = DRAW, !.finished_at = TRUE]
        ELSE [g EXCEPT !.board = b,
                       !.current_turn = IF g.current_turn = "X" THEN "O" ELSE "X"]

\* Mutant: the turn is not passed on after a move that does not end the game.
MovedGame_KeepsTurn(g, user, position) ==
    LET symbol == get_player_symbol(g, user)
        b == [g.board EXCEPT ![position] = symbol]
        winner == check_winner(b)
    IN  IF winner # None
        THEN [g EXCEPT !.board = b,
                       !.status = FINISHED,
                       !.winner = IF winner = "X" THEN g.player1 ELSE g.player2,
                       !.finished_at = TRUE]
        ELSE IF is_board_full(b)
        THEN [g EXCEPT !.board = b, !.status = DRAW, !.finished_at = TRUE]
        ELSE [g EXCEPT !.board = b]

\* The in-memory game object after make_move has set the cell and evaluated
\* the board (the object game.save() then writes).
MovedGame(g, user, position) ==
    LET symbol == get_player_symbol(g, user)
        b == [g.board EXCEPT ![position] = symbol]
        winner == check_winner(b)
    IN  IF winner # None
        THEN [g EXCEPT !.board = b,
                       !.status = FINISHED,
                       !.winner = IF winner = "X" THEN g.player1 ELSE g.player2,
                       !.finished_at = TRUE]
        ELSE IF is_board_full(b)
        THEN [g EXCEPT !.board = b, !.status = DRAW, !.finished_at = TRUE]
        ELSE [g EXCEPT !.board = b,
                       !.current_turn = IF g.current_turn = "X" THEN "O" ELSE "X"]

\* Mutant: a user may join the game they created.
JoinError_NoSelfCheck(g, user) ==
    IF g.status # WAITING THEN ErrNotJoinable
    ELSE IF g.player2 # None THEN ErrTwoPlayers
    ELSE Ok

\* The validations of GameService.join_game and JoinGameSerializer.validate.
JoinError(g, user) ==
    IF g.status # WAITING THEN ErrNotJoinable
    ELSE IF g.player1 = user THEN ErrSelfPlay
    ELSE IF g.player2 # None THEN ErrTwoPlayers
    ELSE Ok

\* Mutant: join sets player2 and leaves the status.
JoinedGame_KeepsStatus(g, user) == [g EXCEPT !.player2 = user]

\* The in-memory game object join writes.
JoinedGame(g, user) == [g EXCEPT !.player2 = user, !.status = IN_PROGRESS]

----------------------------------------------------------------------------
(* State *)

VARIABLES
    game,     \* the Game row of the store (NoGame before it is created
              \* and after it is deleted)
    moves,    \* the Move table of the game, in creation order
    reqs,     \* the requests in flight: slot -> request
    version,  \* history: the number of writes of the Game row so far
    overlaps, \* history: the number of requests that started while another
              \* one was in flight
    updates,  \* history: the number of PUT and PATCH requests so far
    last,     \* the response to the last operation that ran on its own
    outcome,  \* SpecRace: the response each of the two requests got
    games,    \* SpecHub: the Game rows of the store, by game id
    logs,     \* SpecHub: the Move table, by game id, in creation order
    commits,  \* SpecHub, history: the number of writes of each Game row
    groups,   \* SpecHub: the channel layer's groups: group -> channels
    conns,    \* SpecHub: the consumers: connection -> consumer
    queues,   \* SpecHub: the channel layer's queue of each channel
    inbox,    \* SpecHub, history: what each client was sent, in order
    calls     \* SpecHub, history: client messages and REST calls so far

\* The store and the requests of one game.
core == <<game, moves, reqs, version, overlaps, updates, last, outcome>>

\* The store of several games, the channel layer and the consumers.
hub == <<games, logs, commits, groups, conns, queues, inbox, calls>>

vars == <<game, moves, reqs, version, overlaps, updates, last, outcome,
          games, logs, commits, groups, conns, queues, inbox, calls>>

Slots == 1..MaxInFlight

IdleReq == [pc |-> "idle", game |-> NoGame, base |-> 0,
            user |-> None, position |-> 0]

NoResponse == [op |-> None, result |-> None]

\* The ids of the games of SpecHub, and an id no game has.
GameIds == {"g1", "g2"}

MissingGame == "g0"

\* The connections (one consumer and one channel each).
Conns == {1, 2}

\* A consumer that has not been opened.  copy is the game object of the
\* handler that runs and base (history) the number of writes of the row when
\* it was read; snap is the game_state make_move returned; since (history)
\* is the number of writes of the row when the channel joined the group;
\* msg (history) is the kind of the last client message and n (history) the
\* number of client messages received; todo is the channels a group_send
\* in progress has read from the group and not yet put the message on, and
\* raised the text of the exception it raised.
NewConn == [pc |-> "new", user |-> None, gid |-> None, copy |-> NoGame,
            base |-> 0, position |-> 0, code |-> 0, snap |-> NoGame,
            since |-> 0, msg |-> None, n |-> 0, todo |-> {}, raised |-> None]

\* No rows, no groups, no consumers.
HubEmpty ==
    /\ games = [g \in GameIds |-> NoGame]
    /\ logs = [g \in GameIds |-> << >>]
    /\ commits = [g \in GameIds |-> 0]
    /\ groups = [g \in GameIds \cup {MissingGame} |-> {}]
    /\ conns = [c \in Conns |-> NewConn]
    /\ queues = [c \in Conns |-> << >>]
    /\ inbox = [c \in Conns |-> << >>]
    /\ calls = 0

NoOutcome == [kind |-> None, user |-> None, position |-> 0, base |-> 0,
              pre |-> NoGame, result |-> None]

Init ==
    /\ game = NoGame
    /\ moves = << >>
    /\ reqs = [r \in Slots |-> IdleReq]
    /\ version = 0
    /\ overlaps = 0
    /\ updates = 0
    /\ last = NoResponse
    /\ outcome = [r \in Slots |-> NoOutcome]
    /\ HubEmpty

----------------------------------------------------------------------------
(* Inputs *)

\* The users that create games (player1 is request.user).
Creators == {"u1"}

\* The player2 a creation request names: nobody, or a user.
Opponents == {None, "u1", "u2"}

\* The player2_username of a REST creation request: blank, the name of a
\* user, or a name no user has.
UnknownName == "nobody"

OpponentNames == {"", "u1", "u2", UnknownName}

\* Positions past the two ends of the board.
OffBoard == {0 - 1, LastCell + 1}

\* The positions the requests of Spec ask for: six cells, so that a game
\* can be won with a cell to spare, and a position past the board.
SpecPositions == {0, 1, 2, 3, 4, 5, LastCell + 1}

\* The positions the operations and requests of SpecRace ask for.
RacePositions == {0, 1, 2, 3, 4, LastCell + 1}

\* The positions the requests of SpecSeq ask for: seven cells, on which a
\* game can be won by either player, and the positions past the two ends of
\* the board.
SeqPositions == {0, 1, 2, 3, 4, 5, 6} \cup OffBoard

Transports == {"ws", "rest"}

\* The users that ask to join: player1 itself and one other user.
Joiners == {"u1", "u2"}

\* The users that ask to join in Spec, where two users may ask at once.
SpecJoiners == {"u1", "u2", "u3"}

----------------------------------------------------------------------------
(* Creation: one INSERT, on both paths.  Game.objects.create draws a new   *)
(* id, so the row of the game is created once: version is 0 until the     *)
(* first write after the INSERT, and a game that was deleted is not        *)
(* created again                                                           *)

\* GameService.create_game
CreateGame(player1, player2) ==
    /\ game = NoGame
    /\ version = 0
    /\ game' = NewGame(player1, player2)
    /\ last' = [op |-> "create", result |-> Ok]
    /\ UNCHANGED <<moves, reqs, version, overlaps, updates, outcome>>
    /\ UNCHANGED hub

\* GameCreateSerializer: validate_player2_username, then create.
RestCreateError(player1, name) ==
    IF name # "" /\ name \notin Users THEN ErrNoSuchUser(name)
    ELSE IF name # "" /\ name = player1 THEN ErrSelfPlay
    ELSE Ok

RestCreate(player1, name) ==
    /\ game = NoGame
    /\ version = 0
    /\ LET err == RestCreateError(player1, name)
       IN  /\ game' = IF err = Ok
                      THEN NewGame(player1, IF name = "" THEN None ELSE name)
                      ELSE game
           /\ last' = [op |-> "create", result |-> err]
    /\ UNCHANGED <<moves, reqs, version, overlaps, updates, outcome>>
    /\ UNCHANGED hub

----------------------------------------------------------------------------
(* The statements of a request *)

\* A new request takes the lowest free slot (slots have no identity).
FreeSlot(r) ==
    /\ reqs[r].pc = "idle"
    /\ \A q \in Slots : q < r => reqs[q].pc # "idle"

\* The first statement of every handler reads the Game row: get_game of the
\* consumer, get_object of the REST actions.  The request works on this
\* copy from here on.  The handler's other inputs (user, position) are
\* first used by its next statement and are drawn there.
ReadGame(r) ==
    /\ reqs[r].pc = "idle"
    /\ game # NoGame
    /\ reqs' = [reqs EXCEPT ![r] = [IdleReq EXCEPT !.pc = "loaded",
                                                   !.game = game,
                                                   !.base = version]]
    /\ UNCHANGED <<game, moves, version>>

\* The validations a move request makes on its copy, by transport.
RequestMoveError(via, g, user, position) ==
    IF via = "rest" THEN RestMoveError(g, user, position)
    ELSE MoveError(g, user, position)

\* What the client is told when the INSERT of the Move fails because the
\* Game row it refers to is gone: handle_move sends the text of the
\* exception, the REST view answers 500.
IntegrityResult(via) ==
    IF via = "rest" THEN ErrServerError
    ELSE "Error making move: " \o ErrForeignKey

\* The result of a move request up to Move.objects.create: the message of
\* the validation that fails, the failure of the INSERT when the row has
\* been deleted since it was read, or Ok.
MoveResult(r, via, user, position) ==
    LET err == RequestMoveError(via, reqs[r].game, user, position)
    IN  IF err # Ok THEN err
        ELSE IF game = NoGame THEN IntegrityResult(via)
        ELSE Ok

\* Mutant: the Move record is created before the validations.
ValidateAndCreateMove_RecordsFirst(r, via, user, position) ==
    /\ reqs[r].pc = "loaded"
    /\ LET g == reqs[r].game
       IN  /\ moves' = Append(moves, NewMove(g, user, position))
           /\ reqs' = IF MoveResult(r, via, user, position) = Ok
                      THEN [reqs EXCEPT ![r] = [@ EXCEPT !.pc = "created",
                                                         !.user = user,
                                                         !.position = position]]
                      ELSE [reqs EXCEPT ![r] = IdleReq]
    /\ UNCHANGED <<game, version>>

\* make_move up to Move.objects.create: validate the copy; when valid, set
\* the cell of the copy and INSERT the Move record; when not, or when the
\* INSERT fails, the handler ends with the error.
ValidateAndCreateMove(r, via, user, position) ==
    /\ reqs[r].pc = "loaded"
    /\ LET g == reqs[r].game
       IN  IF MoveResult(r, via, user, position) = Ok
           THEN /\ moves' = Append(moves, NewMove(g, user, position))
                /\ reqs' = [reqs EXCEPT ![r] = [@ EXCEPT !.pc = "created",
                                                        !.user = user,
                                                        !.position = position]]
           ELSE /\ moves' = moves
                /\ reqs' = [reqs EXCEPT ![r] = IdleReq]
    /\ UNCHANGED <<game, version>>

\* make_move from the winner check to game.save(): one UPDATE that writes
\* every field of the copy over the row (an INSERT of the copy when the row
\* has been deleted); the handler then ends.
SaveMovedGame(r) ==
    /\ reqs[r].pc = "created"
    /\ game' = SavedRow(MovedGame(reqs[r].game, reqs[r].user, reqs[r].position))
    /\ version' = version + 1
    /\ reqs' = [reqs EXCEPT ![r] = IdleReq]
    /\ UNCHANGED moves

\* join: validate the copy; when valid, set player2 and status and save.
ValidateAndJoin(r, user) ==
    /\ reqs[r].pc = "loaded"
    /\ LET g == reqs[r].game
       IN  IF JoinError(g, user) = Ok
           THEN /\ game' = SavedRow(JoinedGame(g, user))
                /\ version' = version + 1
           ELSE /\ game' = game
                /\ version' = version
    /\ reqs' = [reqs EXCEPT ![r] = IdleReq]
    /\ UNCHANGED moves

\* The update and partial_update GameViewSet inherits from ModelViewSet
\* (PUT, PATCH): every field of GameDetailSerializer is read-only, so
\* serializer.save() changes nothing in the copy and saves it: one UPDATE
\* that writes every field of the copy over the row.
SaveReadGame(r) ==
    /\ reqs[r].pc = "loaded"
    /\ game' = SavedRow(reqs[r].game)
    /\ version' = version + 1
    /\ reqs' = [reqs EXCEPT ![r] = IdleReq]
    /\ UNCHANGED moves

\* The destroy GameViewSet inherits from ModelViewSet (DELETE):
\* instance.delete() removes the Move records of the game (CASCADE) and the
\* Game row in one transaction.
DeleteGame(r) ==
    /\ reqs[r].pc = "loaded"
    /\ game' = NoGame
    /\ moves' = << >>
    /\ version' = version + 1
    /\ reqs' = [reqs EXCEPT ![r] = IdleReq]

----------------------------------------------------------------------------
(* Spec: requests run concurrently, statement by statement *)

Busy == \E q \in Slots : reqs[q].pc # "idle"

Load(r) ==
    /\ Len(moves) < MaxMoves
    /\ Busy => overlaps < MaxOverlaps
    /\ FreeSlot(r)
    /\ ReadGame(r)
    /\ overlaps' = IF Busy THEN overlaps + 1 ELSE overlaps
    /\ UNCHANGED updates
    /\ UNCHANGED <<last, outcome>>
    /\ UNCHANGED hub

MakeMoveCreate(r, via, user, position) ==
    /\ ValidateAndCreateMove(r, via, user, position)
    /\ UNCHANGED <<last, overlaps, updates, outcome>>
    /\ UNCHANGED hub

MakeMoveSave(r) ==
    /\ SaveMovedGame(r)
    /\ UNCHANGED <<last, overlaps, updates, outcome>>
    /\ UNCHANGED hub

Join(r, user) ==
    /\ ValidateAndJoin(r, user)
    /\ UNCHANGED <<last, overlaps, updates, outcome>>
    /\ UNCHANGED hub

Update(r) ==
    /\ updates < MaxUpdates
    /\ SaveReadGame(r)
    /\ updates' = updates + 1
    /\ UNCHANGED <<last, overlaps, outcome>>
    /\ UNCHANGED hub

Destroy(r) ==
    /\ DeleteGame(r)
    /\ UNCHANGED <<last, overlaps, updates, outcome>>
    /\ UNCHANGED hub

Next ==
    \/ \E p1 \in Creators, p2 \in Opponents : CreateGame(p1, p2)
    \/ \E p1 \in Creators, n \in OpponentNames : RestCreate(p1, n)
    \/ \E r \in Slots : Load(r)
    \/ \E r \in Slots, via \in Transports, u \in Users, p \in SpecPositions :
          MakeMoveCreate(r, via, u, p)
    \/ \E r \in Slots : MakeMoveSave(r)
    \/ \E r \in Slots, u \in SpecJoiners : Join(r, u)
    \/ \E r \in Slots : Update(r)
    \/ \E r \in Slots : Destroy(r)

Spec == Init /\ [][Next]_vars

----------------------------------------------------------------------------
(* SpecSeq: one request at a time, statement by statement: a request       *)
(* starts when the response to the one before it has reached the client    *)

\* The slot of the one request in flight.
SeqSlot == 1

\* A request is in flight: it has read the row and has not answered.
Running == [op |-> None, result |-> "running"]

\* A request starts: its handler reads the row.
SeqLoad ==
    /\ last = NoResponse
    /\ ~ Busy
    /\ ReadGame(SeqSlot)
    /\ last' = Running
    /\ UNCHANGED <<overlaps, updates, outcome>>
    /\ UNCHANGED hub

\* The request is a move: make_move up to Move.objects.create.
SeqMoveCreate(via, user, position) ==
    /\ last = Running
    /\ ValidateAndCreateMove(SeqSlot, via, user, position)
    /\ LET result == MoveResult(SeqSlot, via, user, position)
       IN  last' = IF result = Ok THEN last
                   ELSE [op |-> "move", result |-> result]
    /\ UNCHANGED <<overlaps, updates, outcome>>
    /\ UNCHANGED hub

\* make_move saves the row and the move is answered.
SeqMoveSave ==
    /\ last = Running
    /\ SaveMovedGame(SeqSlot)
    /\ last' = [op |-> "move", result |-> Ok]
    /\ UNCHANGED <<overlaps, updates, outcome>>
    /\ UNCHANGED hub

\* The request is a join.
SeqJoin(user) ==
    /\ last = Running
    /\ ValidateAndJoin(SeqSlot, user)
    /\ last' = [op |-> "join", result |-> JoinError(reqs[SeqSlot].game, user)]
    /\ UNCHANGED <<overlaps, updates, outcome>>
    /\ UNCHANGED hub

\* The request is a PUT or a PATCH.
SeqUpdate ==
    /\ last = Running
    /\ updates < MaxUpdates
    /\ SaveReadGame(SeqSlot)
    /\ updates' = updates + 1
    /\ last' = [op |-> "update", result |-> Ok]
    /\ UNCHANGED <<overlaps, outcome>>
    /\ UNCHANGED hub

\* The request is a DELETE.
SeqDestroy ==
    /\ last = Running
    /\ DeleteGame(SeqSlot)
    /\ last' = [op |-> "destroy", result |-> Ok]
    /\ UNCHANGED <<overlaps, updates, outcome>>
    /\ UNCHANGED hub

\* The response reaches the client; the next operation starts after it.
SeqRespond ==
    /\ last \notin {NoResponse, Running}
    /\ last' = NoResponse
    /\ UNCHANGED <<game, moves, reqs, version, overlaps, updates, outcome>>
    /\ UNCHANGED hub

\* On the board the two transports make the same checks, so a position on
\* the board is asked for over one of them, a position off it over both.
TransportsFor(position) ==
    IF position \in Cells THEN {"ws"} ELSE Transports

NextSeq ==
    \/ \E p1 \in Creators, p2 \in Opponents : CreateGame(p1, p2)
    \/ \E p1 \in Creators, n \in OpponentNames : RestCreate(p1, n)
    \/ SeqLoad
    \/ \E u \in Joiners : SeqJoin(u)
    \/ \E u \in Users, p \in SeqPositions :
          \E via \in TransportsFor(p) : SeqMoveCreate(via, u, p)
    \/ SeqMoveSave
    \/ SeqUpdate
    \/ SeqDestroy
    \/ SeqRespond

SpecSeq == Init /\ [][NextSeq]_vars

----------------------------------------------------------------------------
(* SpecPlay: a fresh game of two players; the two players ask for moves on  *)
(* the nine cells over the WebSocket, one request after the other           *)

PlayPlayers == {"u1", "u2"}

NextPlay ==
    \/ \E p1 \in Creators : CreateGame(p1, "u2")
    \/ SeqLoad
    \/ \E u \in PlayPlayers, p \in Cells : SeqMoveCreate("ws", u, p)
    \/ SeqMoveSave
    \/ SeqRespond

SpecPlay == Init /\ [][NextPlay]_vars

----------------------------------------------------------------------------
(* SpecBoards: _check_winner called on each list of nine cells over None,   *)
(* X and O                                                                  *)

Marks == {None, "X", "O"}

Boards == [Cells -> Marks]

\* The result of a call that has not returned.
Pending == "pending"

InitBoards ==
    /\ game = NoGame
    /\ moves = << >>
    /\ reqs = [r \in Slots |-> IdleReq]
    /\ version = 0
    /\ overlaps = 0
    /\ updates = 0
    /\ outcome = [r \in Slots |-> NoOutcome]
    /\ HubEmpty
    /\ last \in {[op |-> "_check_winner", board |-> b, result |-> Pending] :
                    b \in Boards}

\* The call returns.
CheckWinner ==
    /\ last.result = Pending
    /\ last' = [last EXCEPT !.result = check_winner(last.board)]
    /\ UNCHANGED <<game, moves, reqs, version, overlaps, updates, outcome>>
    /\ UNCHANGED hub

NextBoards == CheckWinner

SpecBoards == InitBoards /\ [][NextBoards]_vars

----------------------------------------------------------------------------
(* SpecRace: operations run on their own up to some state of the game; then *)
(* two move requests arrive and run concurrently, statement by statement,   *)
(* and the response of each is kept                                         *)

\* The two requests of the race.
Racers == {1, 2}

RaceOpen == \A r \in Racers : reqs[r].pc = "idle" /\ outcome[r] = NoOutcome

\* What a request that ends leaves in outcome: its inputs, the write of
\* the row it had read, the copy it validated and the response.
Outcome(r, user, position, result) ==
    [kind |-> "move", user |-> user, position |-> position,
     base |-> reqs[r].base, pre |-> reqs[r].game, result |-> result]

RaceLoad(r) ==
    /\ last = NoResponse
    /\ outcome[r] = NoOutcome
    /\ ReadGame(r)
    /\ UNCHANGED <<last, overlaps, updates, outcome>>
    /\ UNCHANGED hub

RaceMakeMoveCreate(r, via, user, position) ==
    /\ last = NoResponse
    /\ ValidateAndCreateMove(r, via, user, position)
    /\ LET err == MoveResult(r, via, user, position)
       IN  outcome' = IF err = Ok THEN outcome
                      ELSE [outcome EXCEPT ![r] = Outcome(r, user, position, err)]
    /\ UNCHANGED <<last, overlaps, updates>>
    /\ UNCHANGED hub

RaceMakeMoveSave(r) ==
    /\ last = NoResponse
    /\ SaveMovedGame(r)
    /\ outcome' = [outcome EXCEPT ![r] =
                      Outcome(r, reqs[r].user, reqs[r].position, Ok)]
    /\ UNCHANGED <<last, overlaps, updates>>
    /\ UNCHANGED hub

NextRace ==
    \/ RaceOpen /\ \E p1 \in Creators, p2 \in Opponents : CreateGame(p1, p2)
    \/ RaceOpen /\ SeqLoad
    \/ \E u \in Joiners : SeqJoin(u)
    \/ \E u \in Users, p \in RacePositions : SeqMoveCreate("ws", u, p)
    \/ SeqMoveSave
    \/ SeqUpdate
    \/ SeqDestroy
    \/ RaceOpen /\ SeqRespond
    \/ \E r \in Racers : RaceLoad(r)
    \/ \E r \in Racers, via \in Transports, u \in Users, p \in RacePositions :
          RaceMakeMoveCreate(r, via, u, p)
    \/ \E r \in Racers : RaceMakeMoveSave(r)

SpecRace == Init /\ [][NextRace]_vars

----------------------------------------------------------------------------
(* SpecHub: the consumers of the WebSocket connections, the groups and the  *)
(* channel queues of the channel layer, and the REST actions, on a store of *)
(* two games.  A consumer handles one message at a time (a client message   *)
(* or a message of its channel); the handlers of different consumers        *)
(* interleave at their awaits: the database statements of a handler and of *)
(* a REST request are steps of their own.                                   *)

\* Client messages and REST calls after which no further one is made.
MaxCalls == 2

\* scope['user'] of a connection without a login (is_authenticated False).
Anonymous == "anonymous"

\* The close codes of connect.
CloseNotAuthenticated == 4001
CloseNotPlayer == 4003
CloseNotFound == 4004

\* The users that open connections, and the game ids they ask for.
HubUsers == {"u1", "u2", Anonymous}

HubGameIds == GameIds \cup {MissingGame}

\* The positions of the move messages and REST moves of SpecHub.
HubPositions == {0, 1}

\* The users of the REST moves, and the user of the REST joins.
RestMovers == {"u1", "u2"}

RestJoiners == {"u1"}

\* The types of the JSON values that are not objects: the text frames
\* [1, 2], 5 and "move" are loaded as a list, an int and a str.
NotObjectTypes == {"list", "int", "str"}

\* The text frames that are not a move with a position or a get_state:
\* text that is not JSON, JSON that is not an object (by the type of the
\* value), an object with another type, and a move without position.
BadMessages == {"invalid_json", "unknown_type", "no_position"} \cup NotObjectTypes

\* A client message that is a binary frame, whatever its bytes.
BinaryFrame == "binary"

\* The message send_error sends for each of them; for a value that is not
\* an object it is the text of the AttributeError of data.get.
BadMessageError(kind) ==
    IF kind = "invalid_json" THEN "Invalid JSON"
    ELSE IF kind \in NotObjectTypes
    THEN "'" \o kind \o "' object has no attribute 'get'"
    ELSE IF kind = "unknown_type" THEN "Unknown message type"
    ELSE "Position is required"

\* str(e) of the ValidationError of make_move, as handle_move sends it: the
\* repr of the list of its messages.
ValidationErrorText(message) == "['" \o message \o "']"

\* str(e) of the Game.DoesNotExist of get_game.
ErrGameGone == "Game matching query does not exist."

\* The fields both kinds of snapshot have.
StateOf(g) ==
    [board |-> g.board, status |-> g.status,
     current_turn |-> g.current_turn, winner |-> g.winner]

\* get_game_state sent as game_state; seq (history) is the number of writes
\* of the row the snapshot was made from.
GameStateMessage(gid, g, n) ==
    [type |-> "game_state", gid |-> gid, data |-> StateOf(g), seq |-> n,
     player1 |-> g.player1, player2 |-> g.player2,
     available_positions |-> get_available_positions(g),
     finished_at |-> g.finished_at]

\* The game_state of make_move sent to the group as game_update, with the
\* move as last_move; seq (history) is the number of the write the handler
\* made.
GameUpdateMessage(gid, g, n, move) ==
    [type |-> "game_update", gid |-> gid, data |-> StateOf(g), seq |-> n,
     last_move |-> move]

ErrorMessage(message) == [type |-> "error", message |-> message]

\* Two games are in the store: g1 of u1 and u2, in progress, and g2 of u2,
\* waiting for a second player.
InitHub ==
    /\ game = NoGame
    /\ moves = << >>
    /\ reqs = [r \in Slots |-> IdleReq]
    /\ version = 0
    /\ overlaps = 0
    /\ updates = 0
    /\ last = NoResponse
    /\ outcome = [r \in Slots |-> NoOutcome]
    /\ games = [g \in GameIds |->
                 IF g = "g1" THEN NewGame("u1", "u2") ELSE NewGame("u2", None)]
    /\ logs = [g \in GameIds |-> << >>]
    /\ commits = [g \in GameIds |-> 0]
    /\ groups = [g \in HubGameIds |-> {}]
    /\ conns = [c \in Conns |-> NewConn]
    /\ queues = [c \in Conns |-> << >>]
    /\ inbox = [c \in Conns |-> << >>]
    /\ calls = 0

\* self.send(...) of consumer c.
Send(c, message) == inbox' = [inbox EXCEPT ![c] = Append(@, message)]

\* Mutant: the row is read before the authentication check.
ConnectLoad_ReadsFirst(c, user, gid) ==
    /\ conns[c].pc = "new"
    /\ \A d \in Conns : d < c => conns[d].pc # "new"
    /\ conns' = [conns EXCEPT ![c] =
          IF gid \notin GameIds \/ games[gid] = NoGame
          THEN [@ EXCEPT !.pc = "rejected", !.user = user, !.gid = gid,
                         !.code = CloseNotFound]
          ELSE IF user = Anonymous
          THEN [@ EXCEPT !.pc = "rejected", !.user = user, !.gid = gid,
                         !.code = CloseNotAuthenticated]
          ELSE [@ EXCEPT !.pc = "checking", !.user = user, !.gid = gid,
                         !.copy = games[gid], !.base = commits[gid]]]
    /\ UNCHANGED <<games, logs, commits, groups, queues, inbox, calls>>
    /\ UNCHANGED core

\* connect up to get_game: the authentication check, then the read of the
\* row.  Connections are opened in the order of their numbers (they have no
\* identity of their own).
ConnectLoad(c, user, gid) ==
    /\ conns[c].pc = "new"
    /\ \A d \in Conns : d < c => conns[d].pc # "new"
    /\ conns' = [conns EXCEPT ![c] =
          IF user = Anonymous
          THEN [@ EXCEPT !.pc = "rejected", !.user = user, !.gid = gid,
                         !.code = CloseNotAuthenticated]
          ELSE IF gid \notin GameIds \/ games[gid] = NoGame
          THEN [@ EXCEPT !.pc = "rejected", !.user = user, !.gid = gid,
                         !.code = CloseNotFound]
          ELSE [@ EXCEPT !.pc = "checking", !.user = user, !.gid = gid,
                         !.copy = games[gid], !.base = commits[gid]]]
    /\ UNCHANGED <<games, logs, commits, groups, queues, inbox, calls>>
    /\ UNCHANGED core

\* connect from is_player to group_add.
ConnectSubscribe(c) ==
    /\ conns[c].pc = "checking"
    /\ IF conns[c].user \in {conns[c].copy.player1, conns[c].copy.player2}
       THEN /\ groups' = [groups EXCEPT ![conns[c].gid] = @ \cup {c}]
            /\ conns' = [conns EXCEPT ![c].pc = "accepting",
                                      ![c].since = commits[conns[c].gid]]
       ELSE /\ groups' = groups
            /\ conns' = [conns EXCEPT ![c].pc = "rejected",
                                      ![c].code = CloseNotPlayer]
    /\ UNCHANGED <<games, logs, commits, queues, inbox, calls>>
    /\ UNCHANGED core

\* connect from accept to the send of the game_state of the copy.
ConnectAccept(c) ==
    /\ conns[c].pc = "accepting"
    /\ Send(c, GameStateMessage(conns[c].gid, conns[c].copy, conns[c].base))
    /\ conns' = [conns EXCEPT ![c].pc = "open"]
    /\ UNCHANGED <<games, logs, commits, groups, queues, calls>>
    /\ UNCHANGED core

\* The consumer is between two messages.
Ready(c) == conns[c].pc = "open" /\ calls < MaxCalls

\* receive of a message that is answered with send_error at once.
ReceiveBad(c, kind) ==
    /\ Ready(c)
    /\ Send(c, ErrorMessage(BadMessageError(kind)))
    /\ conns' = [conns EXCEPT ![c].msg = kind, ![c].n = @ + 1]
    /\ calls' = calls + 1
    /\ UNCHANGED <<games, logs, commits, groups, queues>>
    /\ UNCHANGED core

\* A binary frame: the generic consumer hands it to receive as the keyword
\* argument bytes_data, which receive(self, text_data) does not take.  The
\* TypeError of the call is raised before the try block of receive is
\* entered: nothing is sent and the consumer ends with the exception, the
\* server closes the connection.  disconnect, the only caller of
\* group_discard, is a handler of the consumer and does not run once the
\* consumer has ended: the channel stays in the group.
ReceiveBinary(c) ==
    /\ Ready(c)
    /\ conns' = [conns EXCEPT ![c].pc = "crashed", ![c].msg = BinaryFrame,
                              ![c].n = @ + 1]
    /\ calls' = calls + 1
    /\ UNCHANGED <<games, logs, commits, groups, queues, inbox>>
    /\ UNCHANGED core

\* receive of get_state: handle_get_state up to get_game; when the row is
\* gone the DoesNotExist is answered with send_error.
ReceiveGetState(c) ==
    /\ Ready(c)
    /\ LET gid == conns[c].gid
       IN  IF games[gid] = NoGame
           THEN /\ Send(c, ErrorMessage("Error getting state: " \o ErrGameGone))
                /\ conns' = [conns EXCEPT ![c].msg = "get_state", ![c].n = @ + 1]
           ELSE /\ inbox' = inbox
                /\ conns' = [conns EXCEPT ![c].pc = "stating",
                                          ![c].copy = games[gid],
                                          ![c].base = commits[gid],
                                          ![c].msg = "get_state",
                                          ![c].n = @ + 1]
    /\ calls' = calls + 1
    /\ UNCHANGED <<games, logs, commits, groups, queues>>
    /\ UNCHANGED core

\* handle_get_state from get_game_state to the send of the game_state of
\* the copy.
SendState(c) ==
    /\ conns[c].pc = "stating"
    /\ Send(c, GameStateMessage(conns[c].gid, conns[c].copy, conns[c].base))
    /\ conns' = [conns EXCEPT ![c].pc = "open"]
    /\ UNCHANGED <<games, logs, commits, groups, queues, calls>>
    /\ UNCHANGED core

\* receive of a move with a position: handle_move up to get_game; when the
\* row is gone the DoesNotExist is answered with send_error.
ReceiveMove(c, position) ==
    /\ Ready(c)
    /\ LET gid == conns[c].gid
       IN  IF games[gid] = NoGame
           THEN /\ Send(c, ErrorMessage("Error making move: " \o ErrGameGone))
                /\ conns' = [conns EXCEPT ![c].position = position,
                                          ![c].msg = "move",
                                          ![c].n = @ + 1]
           ELSE /\ inbox' = inbox
                /\ conns' = [conns EXCEPT ![c].pc = "loaded",
                                          ![c].copy = games[gid],
                                          ![c].base = commits[gid],
                                          ![c].position = position,
                                          ![c].msg = "move",
                                          ![c].n = @ + 1]
    /\ calls' = calls + 1
    /\ UNCHANGED <<games, logs, commits, groups, queues>>
    /\ UNCHANGED core

\* handle_move: make_move on the copy up to Move.objects.create.  A
\* ValidationError, or the failure of the INSERT when the row is gone, is
\* sent to the client and the handler ends.
HubCreateMove(c) ==
    /\ conns[c].pc = "loaded"
    /\ LET gid == conns[c].gid
           g == conns[c].copy
           user == conns[c].user
           position == conns[c].position
           err == MoveError(g, user, position)
       IN  IF err # Ok
           THEN /\ Send(c, ErrorMessage(ValidationErrorText(err)))
                /\ conns' = [conns EXCEPT ![c].pc = "open"]
                /\ logs' = logs
           ELSE IF games[gid] = NoGame
           THEN /\ Send(c, ErrorMessage(IntegrityResult("ws")))
                /\ conns' = [conns EXCEPT ![c].pc = "open"]
                /\ logs' = logs
           ELSE /\ logs' = [logs EXCEPT ![gid] = Append(@, NewMove(g, user, position))]
                /\ conns' = [conns EXCEPT ![c].pc = "created"]
                /\ inbox' = inbox
    /\ UNCHANGED <<games, commits, groups, queues, calls>>
    /\ UNCHANGED core

\* handle_move: make_move from the winner check to game.save() and the
\* game_state it returns; the handler goes on to the broadcast.
HubSaveMove(c) ==
    /\ conns[c].pc = "created"
    /\ LET gid == conns[c].gid
           g == conns[c].copy
           user == conns[c].user
           position == conns[c].position
           moved == SavedRow(MovedGame(g, user, position))
       IN  /\ games' = [games EXCEPT ![gid] = moved]
           /\ commits' = [commits EXCEPT ![gid] = @ + 1]
           /\ conns' = [conns EXCEPT
                 ![c].pc = "committed",
                 ![c].snap = GameUpdateMessage(gid, moved, commits[gid] + 1,
                                               NewMove(g, user, position))]
    /\ UNCHANGED <<logs, groups, queues, inbox, calls>>
    /\ UNCHANGED core

\* Mutant: the game_update goes to every channel, whatever its group.
GroupSend_AllChannels(c) ==
    /\ conns[c].pc = "committed"
    /\ queues' = [d \in Conns |->
                    IF \E g \in HubGameIds : d \in groups[g]
                    THEN Append(queues[d], conns[c].snap)
                    ELSE queues[d]]
    /\ conns' = [conns EXCEPT ![c].pc = "open", ![c].snap = NoGame]
    /\ UNCHANGED <<games, logs, commits, groups, inbox, calls>>
    /\ UNCHANGED core

\* Mutant: the game_update goes to the other channels of the group only.
GroupSend_OthersOnly(c) ==
    /\ conns[c].pc = "committed"
    /\ queues' = [d \in Conns |->
                    IF d \in groups[conns[c].gid] /\ d # c
                    THEN Append(queues[d], conns[c].snap)
                    ELSE queues[d]]
    /\ conns' = [conns EXCEPT ![c].pc = "open", ![c].snap = NoGame]
    /\ UNCHANGED <<games, logs, commits, groups, inbox, calls>>
    /\ UNCHANGED core

\* handle_move: group_send puts the game_update on the queue of every
\* channel of the group of the game.
GroupSend(c) ==
    /\ conns[c].pc = "committed"
    /\ queues' = [d \in Conns |->
                    IF d \in groups[conns[c].gid]
                    THEN Append(queues[d], conns[c].snap)
                    ELSE queues[d]]
    /\ conns' = [conns EXCEPT ![c].pc = "open", ![c].snap = NoGame]
    /\ UNCHANGED <<games, logs, commits, groups, inbox, calls>>
    /\ UNCHANGED core

\* game_update: the consumer takes the next message of its channel and
\* sends it to its client.
Deliver(c) ==
    /\ conns[c].pc = "open"
    /\ queues[c] # << >>
    /\ Send(c, Head(queues[c]))
    /\ queues' = [queues EXCEPT ![c] = Tail(@)]
    /\ UNCHANGED <<games, logs, commits, groups, conns, calls>>
    /\ UNCHANGED core

\* disconnect: the client closes an open connection, or the close of a
\* rejected connection is completed; group_discard in both cases.
Disconnect(c) ==
    /\ conns[c].pc \in {"open", "rejected"}
    /\ groups' = [groups EXCEPT ![conns[c].gid] = @ \ {c}]
    /\ conns' = [conns EXCEPT ![c].pc = "closed"]
    /\ UNCHANGED <<games, logs, commits, queues, inbox, calls>>
    /\ UNCHANGED core

\* The variables of the single game that a REST request leaves alone.
coreButReqs == <<game, moves, version, overlaps, last, outcome>>

\* Mutant: the views share one lock: a request starts only when no other
\* request is in flight.
RestLoad_GlobalLock(r, gid) ==
    /\ calls < MaxCalls
    /\ \A q \in Slots : reqs[q].pc = "idle"
    /\ FreeSlot(r)
    /\ games[gid] # NoGame
    /\ reqs' = [reqs EXCEPT ![r] =
                  [pc |-> "loaded", game |-> games[gid], base |-> commits[gid],
                   user |-> None, position |-> 0, gid |-> gid]]
    /\ calls' = calls + 1
    /\ UNCHANGED <<games, logs, commits, groups, conns, queues, inbox>>
    /\ UNCHANGED <<coreButReqs, updates>>

\* A REST request on a game starts: get_object reads the row.  The views
\* take no lock and the server runs the requests concurrently: a request
\* starts whatever the other requests in flight are doing.  Nothing a REST
\* action does is sent to the group.
RestLoad(r, gid) ==
    /\ calls < MaxCalls
    /\ FreeSlot(r)
    /\ games[gid] # NoGame
    /\ reqs' = [reqs EXCEPT ![r] =
                  [pc |-> "loaded", game |-> games[gid], base |-> commits[gid],
                   user |-> None, position |-> 0, gid |-> gid]]
    /\ calls' = calls + 1
    /\ UNCHANGED <<games, logs, commits, groups, conns, queues, inbox>>
    /\ UNCHANGED <<coreButReqs, updates>>

\* GameViewSet.move: the validations, then make_move up to
\* Move.objects.create.
RestMoveCreate(r, user, position) ==
    /\ reqs[r].pc = "loaded"
    /\ IF /\ RestMoveError(reqs[r].game, user, position) = Ok
          /\ games[reqs[r].gid] # NoGame
       THEN /\ logs' = [logs EXCEPT ![reqs[r].gid] =
                          Append(@, NewMove(reqs[r].game, user, position))]
            /\ reqs' = [reqs EXCEPT ![r].pc = "created",
                                    ![r].user = user,
                                    ![r].position = position]
       ELSE /\ logs' = logs
            /\ reqs' = [reqs EXCEPT ![r] = IdleReq]
    /\ UNCHANGED <<games, commits, groups, conns, queues, inbox, calls>>
    /\ UNCHANGED <<coreButReqs, updates>>

\* GameViewSet.move: make_move from the winner check to game.save().
RestMoveSave(r) ==
    /\ reqs[r].pc = "created"
    /\ games' = [games EXCEPT ![reqs[r].gid] =
                   SavedRow(MovedGame(reqs[r].game, reqs[r].user,
                                      reqs[r].position))]
    /\ commits' = [commits EXCEPT ![reqs[r].gid] = @ + 1]
    /\ reqs' = [reqs EXCEPT ![r] = IdleReq]
    /\ UNCHANGED <<logs, groups, conns, queues, inbox, calls>>
    /\ UNCHANGED <<coreButReqs, updates>>

\* GameViewSet.join: the validations and the save.
RestJoin(r, user) ==
    /\ reqs[r].pc = "loaded"
    /\ IF JoinError(reqs[r].game, user) = Ok
       THEN /\ games' = [games EXCEPT ![reqs[r].gid] =
                           SavedRow(JoinedGame(reqs[r].game, user))]
            /\ commits' = [commits EXCEPT ![reqs[r].gid] = @ + 1]
       ELSE UNCHANGED <<games, commits>>
    /\ reqs' = [reqs EXCEPT ![r] = IdleReq]
    /\ UNCHANGED <<logs, groups, conns, queues, inbox, calls>>
    /\ UNCHANGED <<coreButReqs, updates>>

\* The inherited update and partial_update: the copy is saved.
RestUpdate(r) ==
    /\ reqs[r].pc = "loaded"
    /\ updates < MaxUpdates
    /\ updates' = updates + 1
    /\ games' = [games EXCEPT ![reqs[r].gid] = SavedRow(reqs[r].game)]
    /\ commits' = [commits EXCEPT ![reqs[r].gid] = @ + 1]
    /\ reqs' = [reqs EXCEPT ![r] = IdleReq]
    /\ UNCHANGED <<logs, groups, conns, queues, inbox, calls>>
    /\ UNCHANGED coreButReqs

\* The inherited destroy: the Move records of the game and its row are
\* deleted.
RestDestroy(r) ==
    /\ reqs[r].pc = "loaded"
    /\ games' = [games EXCEPT ![reqs[r].gid] = NoGame]
    /\ logs' = [logs EXCEPT ![reqs[r].gid] = << >>]
    /\ commits' = [commits EXCEPT ![reqs[r].gid] = @ + 1]
    /\ reqs' = [reqs EXCEPT ![r] = IdleReq]
    /\ UNCHANGED <<groups, conns, queues, inbox, calls>>
    /\ UNCHANGED <<coreButReqs, updates>>

\* The steps of the consumers.
NextWs ==
    \/ \E c \in Conns, u \in HubUsers, g \in HubGameIds : ConnectLoad(c, u, g)
    \/ \E c \in Conns : ConnectSubscribe(c)
    \/ \E c \in Conns : ConnectAccept(c)
    \/ \E c \in Conns, k \in BadMessages : ReceiveBad(c, k)
    \/ \E c \in Conns : ReceiveBinary(c)
    \/ \E c \in Conns : ReceiveGetState(c)
    \/ \E c \in Conns : SendState(c)
    \/ \E c \in Conns, p \in HubPositions : ReceiveMove(c, p)
    \/ \E c \in Conns : HubCreateMove(c)
    \/ \E c \in Conns : HubSaveMove(c)
    \/ \E c \in Conns : GroupSend(c)
    \/ \E c \in Conns : Deliver(c)
    \/ \E c \in Conns : Disconnect(c)

\* The consumers and the REST actions.
NextHub ==
    \/ NextWs
    \/ \E r \in Slots, g \in GameIds : RestLoad(r, g)
    \/ \E r \in Slots, u \in RestMovers, p \in HubPositions :
          RestMoveCreate(r, u, p)
    \/ \E r \in Slots : RestMoveSave(r)
    \/ \E r \in Slots, u \in RestJoiners : RestJoin(r, u)
    \/ \E r \in Slots : RestUpdate(r)
    \/ \E r \in Slots : RestDestroy(r)

SpecHub == InitHub /\ [][NextHub]_vars

\* SpecWs: every request comes over a WebSocket connection.
SpecWs == InitHub /\ [][NextWs]_vars

----------------------------------------------------------------------------
(* SpecHubFault: SpecHub with group_send as a call of several steps that   *)
(* can raise.  The channel layer is what settings name under               *)
(* CHANNEL_LAYERS; the in-memory layer of the development settings stands  *)
(* in for a layer on a Redis server, whose group_send awaits the server    *)
(* and raises when the server cannot be reached.  handle_move awaits       *)
(* group_send inside its try block: what the consumer does with the        *)
(* exception is the except Exception clause of handle_move.                *)

\* str(e) of the exceptions the group_send of the layer raises.
FaultTexts == {"group_send failed", "connection refused"}

\* handle_move calls group_send: the layer reads the channels of the group,
\* once.  Channels that join the group later are not sent the message, and
\* channels that leave it later still are.
GroupSendCall(c) ==
    /\ conns[c].pc = "committed"
    /\ conns' = [conns EXCEPT ![c].pc = "sending",
                              ![c].todo = groups[conns[c].gid]]
    /\ UNCHANGED <<games, logs, commits, groups, queues, inbox, calls>>
    /\ UNCHANGED core

\* group_send awaits between its puts: the game_update is put on the queue
\* of one more of the channels it read.
GroupSendPut(c, d) ==
    /\ conns[c].pc = "sending"
    /\ d \in conns[c].todo
    /\ queues' = [queues EXCEPT ![d] = Append(@, conns[c].snap)]
    /\ conns' = [conns EXCEPT ![c].todo = @ \ {d}]
    /\ UNCHANGED <<games, logs, commits, groups, inbox, calls>>
    /\ UNCHANGED core

\* group_send returns after the put on the last channel it read and
\* handle_move ends.
GroupSendReturns(c) ==
    /\ conns[c].pc = "sending"
    /\ conns[c].todo = {}
    /\ conns' = [conns EXCEPT ![c].pc = "open", ![c].snap = NoGame]
    /\ UNCHANGED <<games, logs, commits, groups, queues, inbox, calls>>
    /\ UNCHANGED core

\* group_send raises: at the call, between two puts or after the last one.
\* The exception reaches the except Exception clause of handle_move; the
\* channels left in todo are not put the message.
GroupSendRaises(c, text) ==
    /\ conns[c].pc \in {"committed", "sending"}
    /\ conns' = [conns EXCEPT ![c].pc = "failed", ![c].raised = text,
                              ![c].todo = IF conns[c].pc = "committed"
                                          THEN groups[conns[c].gid] ELSE @]
    /\ UNCHANGED <<games, logs, commits, groups, queues, inbox, calls>>
    /\ UNCHANGED core

\* handle_move: the except Exception clause sends the requester the error
\* with the text of the exception.
SendMoveError(c) ==
    /\ conns[c].pc = "failed"
    /\ Send(c, ErrorMessage("Error making move: " \o conns[c].raised))
    /\ conns' = [conns EXCEPT ![c].pc = "open", ![c].snap = NoGame,
                              ![c].todo = {}, ![c].raised = None]
    /\ UNCHANGED <<games, logs, commits, groups, queues, calls>>
    /\ UNCHANGED core

NextHubFault ==
    \/ NextHub
    \/ \E c \in Conns : GroupSendCall(c)
    \/ \E c \in Conns, d \in Conns : GroupSendPut(c, d)
    \/ \E c \in Conns : GroupSendReturns(c)
    \/ \E c \in Conns, text \in FaultTexts : GroupSendRaises(c, text)
    \/ \E c \in Conns : SendMoveError(c)

SpecHubFault == InitHub /\ [][NextHubFault]_vars

----------------------------------------------------------------------------
(* SpecEnd: a game of two players after six moves made one after the       *)
(* other; from there the two players ask for moves concurrently            *)

\* The cells of the first six moves, X first: the board they leave is
\* X O X / X O O / _ _ _ with no line, and it is the turn of X.
EndgameOpening == <<0, 1, 2, 4, 3, 5>>

\* The player for whom is_player_turn holds, None when it holds for neither
\* (a game without player2, or of one user against themself, on the turn of
\* O).
TurnPlayer(g) ==
    IF is_player_turn(g, g.player1) THEN g.player1
    ELSE IF g.player2 # None /\ is_player_turn(g, g.player2) THEN g.player2
    ELSE None

\* The row after the first k moves of the opening, each made by make_move
\* on the row the move before it saved.
RECURSIVE PlayedGame(_)
PlayedGame(k) ==
    IF k = 0 THEN NewGame("u1", "u2")
    ELSE LET g == PlayedGame(k - 1)
         IN  SavedRow(MovedGame(g, TurnPlayer(g), EndgameOpening[k]))

\* The Move records of the first k moves of the opening.
RECURSIVE PlayedLog(_)
PlayedLog(k) ==
    IF k = 0 THEN << >>
    ELSE LET g == PlayedGame(k - 1)
         IN  Append(PlayedLog(k - 1), NewMove(g, TurnPlayer(g), EndgameOpening[k]))

InitEnd ==
    /\ game = PlayedGame(Len(EndgameOpening))
    /\ moves = PlayedLog(Len(EndgameOpening))
    /\ reqs = [r \in Slots |-> IdleReq]
    /\ version = Len(EndgameOpening)
    /\ overlaps = 0
    /\ updates = 0
    /\ last = NoResponse
    /\ outcome = [r \in Slots |-> NoOutcome]
    /\ HubEmpty

\* The positions asked for: the three empty cells and a taken one.
EndPositions == {0, 6, 7, 8}

\* A request starts: its handler reads the row.
EndLoad(r) ==
    /\ Len(moves) < MaxLog
    /\ Busy => overlaps < MaxOverlaps
    /\ FreeSlot(r)
    /\ ReadGame(r)
    /\ overlaps' = IF Busy THEN overlaps + 1 ELSE overlaps
    /\ UNCHANGED updates
    /\ UNCHANGED <<last, outcome>>
    /\ UNCHANGED hub

NextEnd ==
    \/ \E r \in Slots : EndLoad(r)
    \/ \E r \in Slots, u \in PlayPlayers, p \in EndPositions :
          MakeMoveCreate(r, "ws", u, p)
    \/ \E r \in Slots : MakeMoveSave(r)

SpecEnd == InitEnd /\ [][NextEnd]_vars

----------------------------------------------------------------------------
(* SpecStatus: a game in each status.  The game is waiting for its second  *)
(* player, or is the game of u1 and u2 after the opening, from which play   *)
(* reaches a finished game and a draw; every user asks for moves on every   *)
(* position, one request after the other                                    *)

\* The starts: the waiting game of u1, and the game after the opening.
InitStatus ==
    /\ \E k \in {0, Len(EndgameOpening)} :
          /\ game = IF k = 0 THEN NewGame("u1", None) ELSE PlayedGame(k)
          /\ moves = PlayedLog(k)
          /\ version = k
    /\ reqs = [r \in Slots |-> IdleReq]
    /\ overlaps = 0
    /\ updates = 0
    /\ last = NoResponse
    /\ outcome = [r \in Slots |-> NoOutcome]
    /\ HubEmpty

NextStatus ==
    \/ SeqLoad
    \/ \E u \in Users, p \in Cells \cup OffBoard :
          \E via \in TransportsFor(p) : SeqMoveCreate(via, u, p)
    \/ SeqMoveSave
    \/ SeqRespond

SpecStatus == InitStatus /\ [][NextStatus]_vars

\* The types of SpecHub's state.
HubTypeOK ==
    /\ \A g \in GameIds : commits[g] \in Nat
    /\ \A c \in Conns :
          conns[c].pc \in {"new", "checking", "accepting", "open", "stating",
                           "loaded", "created", "committed", "sending",
                           "failed", "rejected", "closed", "crashed"}
    /\ calls \in 0..(MaxCalls + 1)

----------------------------------------------------------------------------
(* Properties *)

Created == game # NoGame

\* The symbol holds all three cells of some winning combination.
HasLine(board, symbol) ==
    \E i \in 1..Len(WINNING_COMBINATIONS) :
        \A j \in 1..3 : board[WINNING_COMBINATIONS[i][j]] = symbol

OtherSymbol(symbol) == IF symbol = "X" THEN "O" ELSE "X"

\* A step of Spec in which request r writes the row of its move.
SavesMove(r) == reqs[r].pc = "created" /\ reqs'[r].pc = "idle"

\* C1: every move that succeeds was computed against the row left by the
\* write before it: a request that writes its move had read the latest
\* write, so no two requests succeed on the same pre-move state.
C1_MovesSerialized ==
    [][\A r \in Slots : SavesMove(r) => reqs[r].base = version]_vars

\* The two requests of the race have ended, they are move requests of the
\* two different players of the game for the same cell, read the same write
\* of the row, and in the row they read the game is in progress and the
\* cell is empty.
RaceCase(r1, r2) ==
    /\ r1 # r2
    /\ outcome[r1] # NoOutcome
    /\ outcome[r2] # NoOutcome
    /\ outcome[r1].base = outcome[r2].base
    /\ outcome[r1].position = outcome[r2].position
    /\ outcome[r1].position \in Cells
    /\ outcome[r1].user # outcome[r2].user
    /\ LET g == outcome[r1].pre
       IN  /\ g.status = IN_PROGRESS
           /\ {outcome[r1].user, outcome[r2].user} = {g.player1, g.player2}
           /\ g.board[outcome[r1].position] = None

\* C2: of two simultaneous move requests of the two players for the same
\* empty cell exactly one succeeds, the other one is rejected as out of turn
\* or position not available, and the cell holds the mark of the one that
\* succeeded.
C2_ExactlyOneSucceeds ==
    \A r1 \in Racers, r2 \in Racers :
        (RaceCase(r1, r2) /\ outcome[r1].result # Ok) =>
            /\ outcome[r2].result = Ok
            /\ outcome[r1].result \in
                  {ErrNotYourTurn, ErrNotAvailable(outcome[r1].position)}
            /\ game.board[outcome[r2].position] =
                  get_player_symbol(game, outcome[r2].user)

\* C2, second half: the two requests never both succeed.
C2_NotBoth ==
    \A r1 \in Racers, r2 \in Racers :
        RaceCase(r1, r2) => ~ (outcome[r1].result = Ok /\ outcome[r2].result = Ok)

C2_Race == C2_ExactlyOneSucceeds /\ C2_NotBoth

C2_Witness ==
    \E r1 \in Racers, r2 \in Racers :
        /\ RaceCase(r1, r2)
        /\ outcome[r1].result = ErrNotYourTurn
        /\ outcome[r2].result = Ok

\* C3: once the stored status is finished or draw, the stored status,
\* board, winner and current turn never change again for as long as the row
\* is stored.
C3_TerminalAbsorbing ==
    [][(Created /\ game.status \in {FINISHED, DRAW} /\ game' # NoGame) =>
          /\ game'.status = game.status
          /\ game'.board = game.board
          /\ game'.winner = game.winner
          /\ game'.current_turn = game.current_turn]_vars

\* C4: a move asked of a game that is waiting, finished or draw is
\* rejected, whoever asks and whatever the position; no Move record is
\* created and the row is unchanged.
C4_OnlyInProgress ==
    [][(Created /\ game.status # IN_PROGRESS
          /\ last = Running /\ reqs[SeqSlot].pc = "loaded") =>
          /\ reqs'[SeqSlot].pc # "created"
          /\ last'.op = "move" =>
                /\ last'.result \in
                      {ErrNotInProgress} \cup {ErrFieldRange(p) : p \in OffBoard}
                /\ moves' = moves
                /\ game' = game]_vars

\* A move asked of a game that is a draw was rejected.
C4_Witness ==
    /\ Created
    /\ game.status = DRAW
    /\ Len(moves) = 9
    /\ last = [op |-> "move", result |-> ErrNotInProgress]

\* C5: the symbols of the Move records alternate X, O, X, ..., and the first
\* record is player1's.
C5_Alternation ==
    \A i \in 1..Len(moves) :
        /\ moves[i].symbol = (IF i % 2 = 1 THEN "X" ELSE "O")
        /\ i = 1 => moves[i].player = game.player1

\* C6: a stored cell that holds a mark holds the same mark in every later
\* stored row.
C6_NoOverwrite ==
    [][(Created /\ game' # NoGame) =>
          \A i \in Cells :
              game.board[i] # None => game'.board[i] = game.board[i]]_vars

\* C7: after operations that ran one after the other and have ended, the
\* cells that are not empty are the positions of the Move records, each
\* holding the symbol of its record, and no two records have the same
\* position.
C7_BoardIsMoveLog ==
    /\ ~ Created => moves = << >>
    /\ (Created /\ last # Running) =>
          /\ {i \in Cells : game.board[i] # None} =
                {moves[k].position : k \in 1..Len(moves)}
          /\ \A k \in 1..Len(moves) :
                game.board[moves[k].position] = moves[k].symbol
          /\ \A k \in 1..Len(moves), l \in 1..Len(moves) :
                moves[k].position = moves[l].position => k = l

C7_Witness ==
    /\ Created
    /\ game.status = FINISHED
    /\ Len(moves) = 5
    /\ last = NoResponse

\* C8: the store never holds a Move record without the cell of the stored
\* board holding its symbol.
C8_MoveWithCell ==
    \A k \in 1..Len(moves) :
        game.board[moves[k].position] = moves[k].symbol

\* C9: a waiting game has no player2, and a game in progress, finished or
\* draw has one.
C9_Player2 ==
    Created =>
        /\ game.status = WAITING => game.player2 = None
        /\ game.status \in {IN_PROGRESS, FINISHED, DRAW} => game.player2 # None

\* A join has been written and the game is in progress with its player2.
C9_Witness ==
    /\ Created
    /\ version = 1
    /\ moves = << >>
    /\ game.status = IN_PROGRESS
    /\ game.player2 = "u2"

\* C10: a finished game has a winner, the winner is one of its two players,
\* the winner's symbol holds a winning combination on the stored board and
\* the other symbol holds none.
C10_Winner ==
    (Created /\ game.status = FINISHED) =>
        /\ game.winner # None
        /\ game.winner \in {game.player1, game.player2}
        /\ HasLine(game.board, get_player_symbol(game, game.winner))
        /\ ~ HasLine(game.board, OtherSymbol(get_player_symbol(game, game.winner)))

C10_Witness ==
    /\ Created
    /\ game.status = FINISHED
    /\ game.winner = "u1"

\* Every cell of the board holds a mark.
NoEmptyCell(board) == \A i \in Cells : board[i] \in {"X", "O"}

\* C11: a game that is a draw has a full board, no winning combination of
\* either mark and no winner; a full board with a winning combination is a
\* finished game, not a draw.
C11_Draw ==
    Created =>
        /\ game.status = DRAW =>
              /\ NoEmptyCell(game.board)
              /\ ~ HasLine(game.board, "X")
              /\ ~ HasLine(game.board, "O")
              /\ game.winner = None
        /\ (NoEmptyCell(game.board)
              /\ (HasLine(game.board, "X") \/ HasLine(game.board, "O"))) =>
              game.status = FINISHED

C11_Witness ==
    /\ Created
    /\ game.status = DRAW
    /\ Len(moves) = 9

\* The 8 fixed triples: 3 rows, 3 columns, 2 diagonals.
Triples ==
    {{3 * r, 3 * r + 1, 3 * r + 2} : r \in 0..2}
        \cup {{c, c + 3, c + 6} : c \in 0..2}
        \cup {{0, 4, 8}, {2, 4, 6}}

\* The three cells of the triple hold the mark.
Uniform(board, triple, mark) == \A i \in triple : board[i] = mark

\* C12: for every board, _check_winner returns a mark exactly when some
\* triple holds three equal marks, the mark returned is the mark of such a
\* triple, and it returns None otherwise.
C12_CheckWinner ==
    (last.op = "_check_winner" /\ last.result # Pending) =>
        LET b == last.board
            won == {m \in {"X", "O"} : \E t \in Triples : Uniform(b, t, m)}
        IN  /\ last.result \in Marks
            /\ last.result # None <=> won # {}
            /\ last.result # None => last.result \in won

\* The call returned O on a board on which X has a triple too.
C12_Witness ==
    /\ last.op = "_check_winner"
    /\ last.result = "O"
    /\ \E t \in Triples : Uniform(last.board, t, "X")

\* Request r1 was accepted, and request r2, of the same user for the same
\* position, read the row that r1 had written.
ReplayCase(r1, r2) ==
    /\ r1 # r2
    /\ outcome[r1] # NoOutcome
    /\ outcome[r2] # NoOutcome
    /\ outcome[r1].result = Ok
    /\ outcome[r2].base = outcome[r1].base + 1
    /\ outcome[r2].user = outcome[r1].user
    /\ outcome[r2].position = outcome[r1].position

\* C13 as stated: the replay of an accepted move fails as out of turn or
\* position not available, also when the move ended the game.
C13_ReplayTakenOrTurn ==
    \A r1 \in Racers, r2 \in Racers :
        ReplayCase(r1, r2) =>
            outcome[r2].result \in
                {ErrNotYourTurn, ErrNotAvailable(outcome[r2].position)}

\* C13, amended: the replay of an accepted move always fails; as out of turn
\* or position not available when the move left the game in progress, as
\* not in progress when the move ended the game.
C13_ReplayFails ==
    \A r1 \in Racers, r2 \in Racers :
        ReplayCase(r1, r2) =>
            /\ outcome[r2].result # Ok
            /\ outcome[r2].pre.status = IN_PROGRESS =>
                  outcome[r2].result \in
                {ErrNotYourTurn, ErrNotAvailable(outcome[r2].position)}
            /\ outcome[r2].pre.status # IN_PROGRESS =>
                  outcome[r2].result = ErrNotInProgress

\* The replay of a move that left the game in progress.
C13_Witness ==
    \E r1 \in Racers, r2 \in Racers :
        /\ ReplayCase(r1, r2)
        /\ outcome[r2].pre.status = IN_PROGRESS
        /\ outcome[r2].result = ErrNotYourTurn

\* C14: a join succeeds only on a waiting game without player2 and for a
\* user other than player1; it then sets player2 to that user and the
\* status to in progress and changes nothing else.  Every other join is
\* rejected with one of the join errors, and the row and the Move records
\* are unchanged.
C14_Join ==
    [][(Created /\ last = Running /\ last'.op = "join") =>
          IF last'.result = Ok
          THEN /\ game.status = WAITING
               /\ game.player2 = None
               /\ game'.player2 \in Users \ {game.player1}
               /\ game' = [game EXCEPT !.player2 = game'.player2,
                                        !.status = IN_PROGRESS]
               /\ moves' = moves
          ELSE /\ last'.result \in {ErrNotJoinable, ErrSelfPlay, ErrTwoPlayers}
               /\ game' = game
               /\ moves' = moves]_vars

\* A join was accepted: the game has its player2 and is in progress.
C14_Witness ==
    /\ Created
    /\ last = [op |-> "join", result |-> Ok]
    /\ game.player2 = "u2"
    /\ game.status = IN_PROGRESS

\* A step of Spec in which request r writes the row of its join.
SavesJoin(r) ==
    /\ reqs[r].pc = "loaded"
    /\ reqs'[r].pc = "idle"
    /\ version' = version + 1

\* C15: player2, once set, is never replaced by another user, and a join
\* that writes the row had read the latest write of it.
C15_NoStaleJoin ==
    [][/\ (Created /\ game.player2 # None /\ game' # NoGame) =>
             game'.player2 = game.player2
       /\ \A r \in Slots : SavesJoin(r) => reqs[r].base = version]_vars

\* The last Move record.
NewRecord == moves[Len(moves)]

\* C16: an accepted move of player p at position k appends one Move record
\* of p at k and leaves the row to the write that follows; that write puts
\* p's symbol at k and then: with a winning combination on the board the
\* game is finished, p is the winner and finished_at is set; else with a
\* full board the game is a draw, finished_at is set and there is no
\* winner; else the turn passes to the other symbol, the game stays in
\* progress and winner and finished_at stay unset.
C16_MoveEffect ==
    [][/\ (Created /\ last = Running /\ reqs'[SeqSlot].pc = "created"
             /\ reqs[SeqSlot].pc = "loaded") =>
             /\ Len(moves') = Len(moves) + 1
             /\ \A k \in 1..Len(moves) : moves'[k] = moves[k]
             /\ moves'[Len(moves')].player = reqs'[SeqSlot].user
             /\ moves'[Len(moves')].position = reqs'[SeqSlot].position
             /\ game' = game
       /\ (Created /\ last = Running /\ last'.op = "move" /\ last'.result = Ok) =>
             /\ moves' = moves
             /\ NewRecord.player \in {game.player1, game.player2}
             /\ NewRecord.player = reqs[SeqSlot].user
             /\ NewRecord.position = reqs[SeqSlot].position
             /\ NewRecord.symbol = (IF NewRecord.player = game.player1
                                     THEN "X" ELSE "O")
             /\ game'.board = [game.board EXCEPT
                                   ![NewRecord.position] = NewRecord.symbol]
             /\ game'.player1 = game.player1
             /\ game'.player2 = game.player2
             /\ IF \E t \in Triples, m \in {"X", "O"} : Uniform(game'.board, t, m)
                THEN /\ game'.status = FINISHED
                     /\ game'.winner = NewRecord.player
                     /\ game'.finished_at
                     /\ game'.current_turn = game.current_turn
                ELSE IF NoEmptyCell(game'.board)
                THEN /\ game'.status = DRAW
                     /\ game'.winner = None
                     /\ game'.finished_at
                     /\ game'.current_turn = game.current_turn
                ELSE /\ game'.status = IN_PROGRESS
                     /\ game'.winner = None
                     /\ ~ game'.finished_at
                     /\ game'.current_turn = OtherSymbol(game.current_turn)]_vars

\* The ninth move was accepted and made the game a draw.
C16_Witness ==
    /\ Created
    /\ last = [op |-> "move", result |-> Ok]
    /\ game.status = DRAW
    /\ game.finished_at

\* The messages with which a move is rejected.
MoveErrors ==
    {ErrNotInProgress, ErrNotPlayer, ErrNotYourTurn}
        \cup {ErrNotAvailable(p) : p \in Cells \cup OffBoard}
        \cup {ErrFieldRange(p) : p \in OffBoard}

\* C17: a move request that is rejected, for any of the causes, leaves the
\* stored row as it is and creates no Move record; whether it ran on its
\* own or next to another request.
C17_RejectedUnchanged ==
    [][/\ (Created /\ last = Running /\ last'.op = "move"
             /\ last'.result # Ok) =>
             /\ last'.result \in MoveErrors
             /\ game' = game
             /\ moves' = moves
       /\ \A r \in Racers :
             (outcome[r] = NoOutcome /\ outcome'[r] # NoOutcome
                /\ outcome'[r].result # Ok) =>
                /\ outcome'[r].result \in MoveErrors
                /\ game' = game
                /\ moves' = moves]_vars

\* A request for a cell that holds a mark was rejected and the row is the
\* row the request had read.
C17_Witness ==
    \E r \in Racers :
        /\ outcome[r] # NoOutcome
        /\ outcome[r].result = ErrNotAvailable(outcome[r].position)
        /\ outcome[r].position \in Cells
        /\ outcome[r].pre.board[outcome[r].position] # None
        /\ game = outcome[r].pre

\* The failures that apply to a move request of the user for the position
\* on the game g, each cause with its own message; a position off the board
\* has the message of the range, not the one of a cell that is taken.
Causes(g, user, position) ==
    (IF user \notin {g.player1, g.player2} THEN {ErrNotPlayer} ELSE {})
        \cup (IF /\ user \in {g.player1, g.player2}
                 /\ get_player_symbol(g, user) # g.current_turn
              THEN {ErrNotYourTurn} ELSE {})
        \cup (IF position \in Cells /\ g.board[position] # None
              THEN {ErrNotAvailable(position)} ELSE {})
        \cup (IF position \notin Cells THEN {ErrFieldRange(position)} ELSE {})

\* C18: on a game in progress a move request that has a cause of failure is
\* rejected with the message of a cause that applies to it: not a player,
\* not your turn, position taken, or position out of range.
C18_DistinctErrors ==
    \A r \in Racers :
        (outcome[r] # NoOutcome /\ outcome[r].pre.status = IN_PROGRESS) =>
            LET causes == Causes(outcome[r].pre, outcome[r].user,
                                 outcome[r].position)
            IN  IF causes = {} THEN outcome[r].result = Ok
                ELSE outcome[r].result \in causes

\* The positions of the Move records, in order.
Played == [k \in 1..Len(moves) |-> moves[k].position]

\* The players of the Move records, in order.
Movers == [k \in 1..Len(moves) |-> moves[k].player]

\* C19: when no request is between its statements: after the moves u1@4,
\* u2@0, u1@1, u2@3, u1@7 on a fresh game of u1 and u2 the game is finished
\* and u1 is the winner, and no shorter start of that sequence ends the
\* game; in general, when the mark of the last move holds a triple, the
\* game is finished and the winner is the player of that move.
C19_LineWins ==
    (Created /\ last # Running) =>
        /\ (Played = <<4, 0, 1, 3, 7>>
               /\ Movers = <<"u1", "u2", "u1", "u2", "u1">>) =>
              /\ game.status = FINISHED
              /\ game.winner = "u1"
              /\ Uniform(game.board, {1, 4, 7}, "X")
        /\ Played \in {<<4>>, <<4, 0>>, <<4, 0, 1>>, <<4, 0, 1, 3>>} =>
              game.status = IN_PROGRESS
        /\ (Len(moves) > 0
               /\ \E t \in Triples :
                     Uniform(game.board, t, moves[Len(moves)].symbol)) =>
              /\ game.status = FINISHED
              /\ game.winner = moves[Len(moves)].player

\* The five moves of the scenario were accepted, the response to the last
\* one is the accepted move and the game is finished.
C19_Witness ==
    /\ Created
    /\ Played = <<4, 0, 1, 3, 7>>
    /\ Movers = <<"u1", "u2", "u1", "u2", "u1">>
    /\ last = [op |-> "move", result |-> Ok]
    /\ game.status = FINISHED

\* The cells that hold the mark.
CellsOf(board, mark) == {i \in Cells : board[i] = mark}

\* C20: when no request is between its statements, a game whose board has
\* X on 0, 1, 5, 6, 8 and O on 2, 3, 4, 7 took nine moves, is a draw and has
\* no winner, in whatever order the moves were made; in general, after nine
\* moves with no triple of either mark the game is a draw and has no
\* winner.
C20_FullNoLineIsDraw ==
    (Created /\ last # Running) =>
        /\ (CellsOf(game.board, "X") = {0, 1, 5, 6, 8}
               /\ CellsOf(game.board, "O") = {2, 3, 4, 7}) =>
              /\ Len(moves) = 9
              /\ game.status = DRAW
              /\ game.winner = None
        /\ (Len(moves) = 9
               /\ ~ \E t \in Triples, m \in {"X", "O"} :
                       Uniform(game.board, t, m)) =>
              /\ game.status = DRAW
              /\ game.winner = None

\* The board of the scenario was reached with the moves in an order other
\* than cell by cell, and the response to the ninth move is the accepted
\* move.
C20_Witness ==
    /\ Created
    /\ CellsOf(game.board, "X") = {0, 1, 5, 6, 8}
    /\ CellsOf(game.board, "O") = {2, 3, 4, 7}
    /\ Played[1] = 8
    /\ Played[9] = 0
    /\ last = [op |-> "move", result |-> Ok]
    /\ game.status = DRAW

\* No handler and no REST request is running and no message is waiting on
\* the channel of an open connection: nothing is left for the server to do.
Quiet ==
    /\ \A r \in Slots : reqs[r].pc = "idle"
    /\ \A c \in Conns :
          /\ conns[c].pc \in {"new", "open", "rejected", "closed"}
          /\ conns[c].pc = "open" => queues[c] = << >>

\* The client of c was sent a snapshot of the game made from write n of its
\* row or from a later one.
Received(c, gid, n) ==
    \E i \in 1..Len(inbox[c]) :
        /\ inbox[c][i].type \in {"game_state", "game_update"}
        /\ inbox[c][i].gid = gid
        /\ inbox[c][i].seq >= n

\* C21: when nothing is left for the server to do, every open connection
\* has been sent a snapshot for every write of its game's row that was made
\* since its channel joined the group, whoever made the write.
C21_AllCommitsDelivered ==
    Quiet =>
        \A c \in Conns :
            conns[c].pc = "open" =>
                \A n \in (conns[c].since + 1)..commits[conns[c].gid] :
                    Received(c, conns[c].gid, n)

\* C22: the game_update snapshots a client is sent for a game come in the
\* order of the writes they were made from: none follows the snapshot of a
\* later write.
C22_UpdatesInCommitOrder ==
    \A c \in Conns :
        \A i \in 1..Len(inbox[c]), j \in 1..Len(inbox[c]) :
            (/\ i < j
             /\ inbox[c][i].type = "game_update"
             /\ inbox[c][j].type = "game_update"
             /\ inbox[c][i].gid = inbox[c][j].gid) =>
                inbox[c][i].seq < inbox[c][j].seq

\* C23: the handler of a move that has been written ends without sending
\* its client an error, with the row and the Move records as written and
\* with the game_update put on every channel group_send read from the
\* group, also when the broadcast fails.
C23_NoErrorAfterCommit ==
    [][\A c \in Conns :
          (conns[c].pc \in {"committed", "sending", "failed"}
             /\ conns'[c].pc = "open") =>
              /\ inbox'[c] = inbox[c]
              /\ conns[c].todo = {}
              /\ games' = games
              /\ logs' = logs]_vars

\* The connection is in some group.
Subscribed(c) == \E g \in HubGameIds : c \in groups[g]

\* The connection was closed by connect.
Rejected(c) == conns[c].code # 0

\* C24: connect rejects with 4001 exactly the connections without a login,
\* whatever game they ask for, with 4004 those with a login that ask for a
\* game that is not there (it never was, or its row was deleted), and with
\* 4003 those with a login whose user is
\* not a player of the game; a rejected connection is in no group, has no
\* message on its channel and was sent nothing; a connection that passed the
\* checks is in the group of its game before anything is sent to it, and
\* the first thing it is sent is a game_state.
C24_Connect ==
    \A c \in Conns :
        /\ conns[c].pc # "new" =>
              (Rejected(c) /\ conns[c].code = CloseNotAuthenticated)
                  <=> conns[c].user = Anonymous
        /\ (conns[c].pc # "new" /\ conns[c].user # Anonymous) =>
              /\ (Rejected(c) /\ conns[c].code = CloseNotFound)
                    <=> conns[c].copy = NoGame
              /\ conns[c].gid \notin GameIds => conns[c].copy = NoGame
        /\ (Rejected(c) /\ conns[c].code = CloseNotPlayer) =>
              /\ conns[c].user # Anonymous
              /\ conns[c].gid \in GameIds
              /\ conns[c].user \notin {conns[c].copy.player1,
                                        conns[c].copy.player2}
        /\ Rejected(c) =>
              /\ conns[c].code \in {CloseNotAuthenticated, CloseNotPlayer,
                                     CloseNotFound}
              /\ ~ Subscribed(c)
              /\ inbox[c] = << >>
              /\ queues[c] = << >>
        /\ conns[c].pc = "accepting" =>
              conns[c].user \in {conns[c].copy.player1, conns[c].copy.player2}
        /\ conns[c].pc \in {"accepting", "open", "stating", "loaded",
                            "created", "committed", "sending", "failed"} =>
              c \in groups[conns[c].gid]
        /\ conns[c].pc \in {"new", "checking", "accepting", "rejected"} =>
              inbox[c] = << >>
        /\ inbox[c] # << >> => inbox[c][1].type = "game_state"

\* One connection was rejected as not a player and closed, another one was
\* accepted and sent its game_state.
C24_Witness ==
    \E c \in Conns, d \in Conns :
        /\ conns[c].pc = "closed"
        /\ conns[c].code = CloseNotPlayer
        /\ conns[d].pc = "open"
        /\ Len(inbox[d]) = 1

\* The last snapshot the client of c was sent (0 when it was sent none).
LastSnapshot(c) ==
    LET at == {i \in 1..Len(inbox[c]) :
                  inbox[c][i].type \in {"game_state", "game_update"}}
    IN  IF at = {} THEN 0 ELSE CHOOSE i \in at : \A j \in at : j <= i

\* C25: when nothing is left for the server to do, the last snapshot every
\* open connection was sent shows the stored row of its game.
C25_Converges ==
    Quiet =>
        \A c \in Conns :
            conns[c].pc = "open" =>
                /\ LastSnapshot(c) # 0
                /\ inbox[c][LastSnapshot(c)].data = StateOf(games[conns[c].gid])

\* C26: a move message that is accepted writes the row, and the game_update
\* made from the written row is put on the channel of every connection of
\* the game's group, the sender's included, and on no other; a move message
\* that is rejected sends one error to its sender, puts nothing on any
\* channel, sends nothing to any other client, and leaves the sender open
\* and in its group.
C26_MoveMessage ==
    [][\A c \in Conns :
          LET gid == conns[c].gid
          IN  /\ (conns[c].pc = "loaded" /\ conns'[c].pc = "created") =>
                    /\ Len(logs'[gid]) = Len(logs[gid]) + 1
                    /\ inbox' = inbox
                    /\ queues' = queues
              /\ (conns[c].pc = "created" /\ conns'[c].pc = "committed") =>
                    /\ games'[gid] # NoGame
                    /\ commits'[gid] = commits[gid] + 1
                    /\ conns'[c].snap.type = "game_update"
                    /\ conns'[c].snap.data = StateOf(games'[gid])
                    /\ inbox' = inbox
                    /\ queues' = queues
              /\ (conns[c].pc = "committed" /\ conns'[c].pc = "open") =>
                    /\ c \in groups[gid]
                    /\ \A d \in Conns :
                          queues'[d] = IF d \in groups[gid]
                                       THEN Append(queues[d], conns[c].snap)
                                       ELSE queues[d]
                    /\ inbox' = inbox
              /\ (conns[c].pc = "loaded" /\ conns'[c].pc = "open") =>
                    /\ Len(inbox'[c]) = Len(inbox[c]) + 1
                    /\ inbox'[c][Len(inbox'[c])].type = "error"
                    /\ \A d \in Conns \ {c} : inbox'[d] = inbox[d]
                    /\ queues' = queues
                    /\ c \in groups'[gid]
                    /\ games' = games
              /\ conns[c].pc = "loaded" =>
                    conns'[c].pc \in {"loaded", "created", "open"}
              /\ conns[c].pc = "created" =>
                    conns'[c].pc \in {"created", "committed"}
              /\ (conns[c].pc = "open" /\ conns'[c].pc = "open"
                     /\ conns'[c].n = conns[c].n + 1
                     /\ conns'[c].msg = "move") =>
                    /\ Len(inbox'[c]) = Len(inbox[c]) + 1
                    /\ inbox'[c][Len(inbox'[c])].type = "error"
                    /\ \A d \in Conns \ {c} : inbox'[d] = inbox[d]
                    /\ queues' = queues
                    /\ games' = games]_vars

\* The game_update of one move was sent to the clients of both connections
\* of the game, the sender's and the other one's.
C26_Witness ==
    \E c \in Conns, d \in Conns :
        /\ c # d
        /\ \E i \in 1..Len(inbox[c]), j \in 1..Len(inbox[d]) :
              /\ inbox[c][i].type = "game_update"
              /\ inbox[d][j] = inbox[c][i]

\* C27: a client message that is not JSON (a text frame that does not
\* parse, or a binary frame), is not an object, has an unknown type, or is
\* a move without a position sends exactly one error to its sender, leaves
\* the sender open and in its group, and changes neither the rows, the Move
\* records, the channels nor what the other clients were sent.
C27_BadMessage ==
    [][\A c \in Conns :
          (/\ conns'[c].n = conns[c].n + 1
           /\ conns'[c].msg \in BadMessages \cup {BinaryFrame}) =>
              /\ Len(inbox'[c]) = Len(inbox[c]) + 1
              /\ inbox'[c][Len(inbox'[c])].type = "error"
              /\ \A i \in 1..Len(inbox[c]) : inbox'[c][i] = inbox[c][i]
              /\ conns'[c].pc = "open"
              /\ c \in groups'[conns[c].gid]
              /\ groups' = groups
              /\ games' = games
              /\ logs' = logs
              /\ queues' = queues
              /\ \A d \in Conns \ {c} : inbox'[d] = inbox[d]]_vars

\* The connection has been closed: by its client or by connect, with
\* disconnect run, or by the server when its consumer ended with an
\* exception.
Closed(c) == conns[c].pc \in {"closed", "crashed"}

\* C28: every connection is in at most one group; the step that subscribes
\* a connection leaves it in the group of its game, once, and changes
\* nothing else of the registry, also when it was in the group before; the
\* step that unsubscribes a connection leaves it out of the group and
\* changes nothing else, and changes nothing at all when it was not in the
\* group (a connection that connect rejected, or one unsubscribed before); a
\* connection that has been closed is in no group, stays closed, and from
\* then on nothing is put on its channel and nothing is sent to its client.
C28_Unsubscribe ==
    [][\A c \in Conns :
          /\ Cardinality({g \in HubGameIds : c \in groups[g]}) <= 1
          /\ (conns[c].pc = "checking" /\ conns'[c].pc = "accepting") =>
                /\ groups'[conns[c].gid] = groups[conns[c].gid] \cup {c}
                /\ \A g \in HubGameIds \ {conns[c].gid} : groups'[g] = groups[g]
                /\ c \in groups[conns[c].gid] => groups' = groups
          /\ (conns[c].pc \in {"open", "rejected"} /\ conns'[c].pc = "closed") =>
                /\ groups'[conns[c].gid] = groups[conns[c].gid] \ {c}
                /\ \A g \in HubGameIds \ {conns[c].gid} : groups'[g] = groups[g]
                /\ c \notin groups[conns[c].gid] => groups' = groups
          /\ Closed(c) =>
                /\ ~ Subscribed(c)
                /\ conns'[c].pc = conns[c].pc
                /\ queues'[c] = queues[c]
                /\ inbox'[c] = inbox[c]]_vars

\* A request on game g has made its first step and not yet its last: a
\* handler of a consumer of g, or a REST request on g.
InProgress(g) ==
    \/ \E c \in Conns :
          /\ conns[c].gid = g
          /\ conns[c].pc \in {"stating", "loaded", "created", "committed"}
    \/ \E r \in Slots : reqs[r].pc # "idle" /\ reqs[r].gid = g

\* Every request on game h that has started can make its next step, the
\* consumers of h that are between two messages can take a move or a
\* get_state, and a new REST request on h can start (as long as the bounds
\* of the model on calls and on requests in flight allow one).
Unblocked(h) ==
    /\ \A c \in Conns :
          conns[c].gid = h =>
              /\ conns[c].pc = "stating" => ENABLED SendState(c)
              /\ conns[c].pc = "loaded" => ENABLED HubCreateMove(c)
              /\ conns[c].pc = "created" => ENABLED HubSaveMove(c)
              /\ conns[c].pc = "committed" => ENABLED GroupSend(c)
              /\ Ready(c) =>
                    /\ ENABLED ReceiveGetState(c)
                    /\ \A p \in HubPositions : ENABLED ReceiveMove(c, p)
    /\ \A r \in Slots :
          (reqs[r].pc # "idle" /\ reqs[r].gid = h) =>
              /\ reqs[r].pc = "loaded" =>
                    /\ \A u \in RestMovers, p \in HubPositions :
                          ENABLED RestMoveCreate(r, u, p)
                    /\ \A u \in RestJoiners : ENABLED RestJoin(r, u)
                    /\ ENABLED RestDestroy(r)
              /\ reqs[r].pc = "created" => ENABLED RestMoveSave(r)
    /\ (/\ calls < MaxCalls
        /\ \E r \in Slots : reqs[r].pc = "idle"
        /\ games[h] # NoGame) =>
          ENABLED (\E r \in Slots : RestLoad(r, h))

\* C29: a step that writes the row or the move log of one game leaves the
\* row, the move log and the group of every other game as they were; a
\* message put on a channel is about the game of the group the channel is
\* in; every snapshot a client has received is about the game of its own
\* connection; and while a request is in progress on one game, no request
\* on another game is blocked: those that have started can make their next
\* step and new ones can start.
C29_GamesIndependent ==
    [][/\ \A g \in GameIds :
            (games'[g] # games[g] \/ logs'[g] # logs[g] \/ commits'[g] # commits[g]) =>
                /\ \A h \in GameIds \ {g} :
                      games'[h] = games[h] /\ logs'[h] = logs[h] /\ commits'[h] = commits[h]
                /\ \A h \in HubGameIds \ {g} : groups'[h] = groups[h]
       /\ \A d \in Conns :
            Len(queues'[d]) > Len(queues[d]) =>
                d \in groups[queues'[d][Len(queues'[d])].gid]
       /\ \A e \in Conns : \A i \in 1..Len(inbox[e]) :
            inbox[e][i].type \in {"game_state", "game_update"} =>
                inbox[e][i].gid = conns[e].gid
       /\ \A g \in GameIds, h \in GameIds :
            (g # h /\ InProgress(g)) => Unblocked(h)]_vars

\* Two connections are open on different games; a REST move on g1 has
\* inserted its Move record and not yet saved the row, and while it is in
\* progress a REST request on g2 has started and read its row; the row and
\* the move log of g2 are as they were.
C29_Witness ==
    \E c \in Conns, d \in Conns :
        /\ conns[c].pc = "open" /\ conns[d].pc = "open"
        /\ conns[c].gid = "g1" /\ conns[d].gid = "g2"
        /\ reqs[1].pc = "created" /\ reqs[1].gid = "g1"
        /\ reqs[2].pc = "loaded" /\ reqs[2].gid = "g2"
        /\ Len(logs["g1"]) = 1
        /\ commits["g2"] = 0
        /\ logs["g2"] = << >>
        /\ queues[c] = << >> /\ queues[d] = << >>

\* C30: the step that creates the game, through the service or through the
\* REST serializer (the row is stored for the first time), stores a game that is waiting exactly when it has no
\* second player and in progress otherwise, whose board is nine empty
\* cells, whose turn is X, and that has no winner and no finish time.
C30_Create ==
    [][(game = NoGame /\ version = 0 /\ game' # NoGame) =>
          /\ last'.op = "create" /\ last'.result = Ok
          /\ game'.player1 \in Users
          /\ (game'.status = WAITING) <=> (game'.player2 = None)
          /\ (game'.status = IN_PROGRESS) <=> (game'.player2 # None)
          /\ DOMAIN game'.board = Cells
          /\ \A i \in Cells : game'.board[i] = None
          /\ game'.current_turn = "X"
          /\ game'.winner = None
          /\ game'.finished_at = FALSE]_vars

\* A game was created without a second player and nothing else has
\* happened to it.
C30_Witness ==
    /\ game # NoGame
    /\ last.op = "create"
    /\ game.player2 = None
    /\ game.status = WAITING
    /\ moves = << >>

\* C31: player1 and player2 of a game are different users.
C31_DistinctPlayers ==
    game # NoGame => game.player1 # game.player2

\* The triples whose three cells hold one mark.
UniformTriples(board) ==
    {t \in Triples : \E m \in {"X", "O"} : Uniform(board, t, m)}

\* The marks that hold a triple.
WinningMarks(board) ==
    {m \in {"X", "O"} : \E t \in Triples : Uniform(board, t, m)}

\* C32 as stated: on every board reached by accepted moves at most one of
\* the 8 triples is uniform and non-empty.
C32_AtMostOneTriple ==
    Created => Cardinality(UniformTriples(game.board)) <= 1

\* C32, amended: on every board reached by accepted moves the uniform
\* triples all hold the same mark, and _check_winner returns that mark, or
\* None when no triple is uniform, so its result does not depend on the
\* order of the triples.
C32_OneWinningMark ==
    Created =>
        /\ Cardinality(WinningMarks(game.board)) <= 1
        /\ \A m \in WinningMarks(game.board) : check_winner(game.board) = m
        /\ WinningMarks(game.board) = {} => check_winner(game.board) = None

\* The ninth move was accepted and completed two triples at once.
C32_Witness ==
    /\ Created
    /\ Len(moves) = 9
    /\ last = [op |-> "move", result |-> Ok]
    /\ game.status = FINISHED
    /\ Cardinality(UniformTriples(game.board)) = 2

\* C33: the move log of a game never holds more than 9 Move records, and
\* once it holds 9 and no request is in flight the game is finished or a
\* draw.
C33_EndsWithinNine ==
    Created =>
        /\ Len(moves) <= 9
        /\ (Len(moves) = 9 /\ ~ Busy) => game.status \in {FINISHED, DRAW}

\* A row of two players with the board, status and turn the snapshot
\* reports.
SnapshotRow(m) ==
    [NewGame("u1", "u2") EXCEPT !.board = m.data.board,
                         !.status = m.data.status,
                         !.current_turn = m.data.current_turn]

\* The positions at which make_move accepts a move of the player whose
\* turn it is in the state the snapshot reports.
AcceptedPositions(m) ==
    {p \in Cells :
        MoveError(SnapshotRow(m), TurnPlayer(SnapshotRow(m)), p) = Ok}

\* C34: every game_state and every game_update a client has received
\* carries available positions, and they are the positions at which a move
\* of the player whose turn it is would be accepted in the reported state:
\* the empty cells of a game in progress, none for any other status.
C34_AvailablePositions ==
    \A c \in Conns : \A i \in 1..Len(inbox[c]) :
        LET m == inbox[c][i]
        IN  m.type \in {"game_state", "game_update"} =>
                /\ "available_positions" \in DOMAIN m
                /\ m.available_positions = AcceptedPositions(m)
                /\ m.available_positions =
                      IF m.data.status = IN_PROGRESS
                      THEN {p \in Cells : m.data.board[p] = None}
                      ELSE {}

====
